---- MODULE Spec2Model ----
(***************************************************************************)
(* A model of the Ecoji codec of netvl/ecoji.rs: the alphabet produced by   *)
(* build.rs, the chunk encoder (src/encode.rs), the group decoder           *)
(* (src/decode.rs) and the code-point reader (src/chars.rs).                *)
(*                                                                          *)
(* Bytes are naturals below 256, code points are naturals, a byte stream    *)
(* or a destination is a sequence of bytes.  Vectors and tables of the      *)
(* program that are indexed from 0 are functions on 0..n-1.                 *)
(***************************************************************************)
EXTENDS Integers, Sequences, FiniteSets, TLC

VARIABLES
    mode,     \* which scenario a behaviour runs
    pc,       \* position of the running call
    a,        \* first input of the scenario (a byte sequence)
    b,        \* second input of the scenario (a byte sequence)
    ra,       \* result of the first operation
    rb,       \* result of the second operation
    rc,       \* result of the third operation
    src,      \* streaming call: what the source has not delivered yet
    buf,      \* streaming call: the filled part of the read buffer
    grp,      \* streaming decode: the checked code points of the current group
    dest,     \* streaming call: the bytes written to the destination
    written,  \* streaming call: the local bytes_written
    res,      \* streaming call: the value returned
    hist,     \* streaming encode: the lengths of the chunks given to encode_chunk
    seen,     \* streaming call: what the source did so far ("Interrupted", "short")
    yielded   \* streaming decode: the items Chars::next has returned so far

vars == <<mode, pc, a, b, ra, rb, rc, src, buf, grp, dest, written, res, hist, seen,
          yielded>>

streamVars == <<src, buf, grp, dest, written, res, hist, seen, yielded>>

----------------------------------------------------------------------------
(* Bounds of the model.                                                     *)

\* longest input of the single-input scenarios (round trip), in bytes
MaxLen == 6
\* in the sorted batch, the number of trailing bytes in which the second input
\* may depart from the first
MaxTail == 2

----------------------------------------------------------------------------
(* Machine arithmetic on naturals: usize shifts, masks and ors.             *)

Pow2(n) == 2 ^ n

Shl(x, n) == x * Pow2(n)

Shr(x, n) == x \div Pow2(n)

RECURSIVE BitAnd(_, _)
BitAnd(x, y) ==
    IF x = 0 \/ y = 0 THEN 0
    ELSE (IF x % 2 = 1 /\ y % 2 = 1 THEN 1 ELSE 0) + 2 * BitAnd(x \div 2, y \div 2)

RECURSIVE BitOr(_, _)
BitOr(x, y) ==
    IF x = 0 THEN y
    ELSE IF y = 0 THEN x
    ELSE (IF x % 2 = 1 \/ y % 2 = 1 THEN 1 ELSE 0) + 2 * BitOr(x \div 2, y \div 2)

\* `x as u8`
AsU8(x) == x % 256

\* s[from..] of a slice, as a sequence
Tail2(s, from) == SubSeq(s, from + 1, Len(s))

\* s[..n] of a slice, as a sequence
Head2(s, n) == SubSeq(s, 1, n)

----------------------------------------------------------------------------
(* The alphabet: emojis.txt and the constants build.rs generates from it.   *)

\* number of lines of emojis.txt
EmojiLineCount == 1030

\* code point on the first line of emojis.txt
FirstEmoji == 126980

\* emojis.txt: one code point per line, in increasing order
emojis_txt == [i \in 0..(EmojiLineCount - 1) |-> FirstEmoji + i]

\* Vec::len of a 0-based vector
VecLen(v) == Cardinality(DOMAIN v)

\* Vec::remove(i): the vector without its element i, the rest shifted left
VecRemove(v, i) ==
    [j \in 0..(VecLen(v) - 2) |-> IF j < i THEN v[j] ELSE v[j + 1]]

PADDING == 9749

PADDING_40 == 9884

\* lines.remove(i): the element removed and the list that is left
Removal(v, i) == [removed |-> v[i], rest |-> VecRemove(v, i)]

\* the three removals of build.rs, in order, each on the list the previous left
\* faulty variant of removal_41: the first removal one line too late
removal_41_late == Removal(emojis_txt, 257)

removal_41 == Removal(emojis_txt, 256)

removal_42 == Removal(removal_41.rest, 512)

removal_43 == Removal(removal_42.rest, 768)

PADDING_41 == removal_41.removed

PADDING_42 == removal_42.removed

PADDING_43 == removal_43.removed

\* the list the table is taken from
lines_3 == removal_43.rest

\* the loop over lines.take(1024).enumerate() writes entry i of the table
\* from line i; here the entries lo..hi-1
RECURSIVE table_entries(_, _)
table_entries(lo, hi) ==
    IF hi - lo = 1 THEN (lo :> lines_3[lo])
    ELSE LET mid == (lo + hi) \div 2
         IN  table_entries(lo, mid) @@ table_entries(mid, hi)

EMOJIS == table_entries(0, 1024)

\* the loop over lines.take(1024).enumerate(): rev_map gets the entry
\* (line i -> i) for every i; here the entries of the lines lo..hi-1
RECURSIVE rev_map_entries(_, _)
rev_map_entries(lo, hi) ==
    IF hi - lo = 1 THEN (lines_3[lo] :> lo)
    ELSE LET mid == (lo + hi) \div 2
         IN  rev_map_entries(lo, mid) @@ rev_map_entries(mid, hi)

EMOJIS_REV == rev_map_entries(0, 1024)

\* the keys of EMOJIS_REV
EMOJIS_REV_KEYS == DOMAIN EMOJIS_REV

\* EMOJIS_REV.get(&c).cloned().unwrap_or(0)
RevOr0(c) == IF c \in EMOJIS_REV_KEYS THEN EMOJIS_REV[c] ELSE 0

\* faulty variant of is_valid_alphabet_char: no membership test
is_valid_alphabet_char_any(c) == TRUE

is_valid_alphabet_char(c) ==
    \/ c \in {PADDING, PADDING_40, PADDING_41, PADDING_42, PADDING_43}
    \/ c \in EMOJIS_REV_KEYS

----------------------------------------------------------------------------
(* UTF-8, as char::encode_utf8, str::from_utf8 and str::chars do it.        *)

\* char::encode_utf8: the 1 to 4 bytes of a scalar value
encode_utf8(c) ==
    IF c < 128 THEN <<c>>
    ELSE IF c < 2048 THEN
        <<192 + (c \div 64), 128 + (c % 64)>>
    ELSE IF c < 65536 THEN
        <<224 + (c \div 4096), 128 + ((c \div 64) % 64), 128 + (c % 64)>>
    ELSE
        <<240 + (c \div 262144), 128 + ((c \div 4096) % 64),
          128 + ((c \div 64) % 64), 128 + (c % 64)>>

UTF8_CHAR_WIDTH(x) ==
    IF x < 128 THEN 1
    ELSE IF x < 194 THEN 0
    ELSE IF x < 224 THEN 2
    ELSE IF x < 240 THEN 3
    ELSE IF x < 245 THEN 4
    ELSE 0

utf8_char_width(x) == UTF8_CHAR_WIDTH(x)

IsCont(x) == x >= 128 /\ x <= 191

\* str::from_utf8(&buf[..width]).is_ok() for a slice v that starts with a
\* leading byte of that width (RFC 3629: no overlong form, no surrogate,
\* nothing above U+10FFFF)
from_utf8_ok(v) ==
    LET w == Len(v) IN
    CASE w = 1 -> v[1] < 128
      [] w = 2 -> v[1] >= 194 /\ v[1] <= 223 /\ IsCont(v[2])
      [] w = 3 ->
            /\ v[1] >= 224 /\ v[1] <= 239
            /\ IsCont(v[2]) /\ IsCont(v[3])
            /\ (v[1] = 224 => v[2] >= 160)
            /\ (v[1] = 237 => v[2] <= 159)
      [] w = 4 ->
            /\ v[1] >= 240 /\ v[1] <= 244
            /\ IsCont(v[2]) /\ IsCont(v[3]) /\ IsCont(v[4])
            /\ (v[1] = 240 => v[2] >= 144)
            /\ (v[1] = 244 => v[2] <= 143)
      [] OTHER -> FALSE

\* s.chars().next().unwrap() of a valid one-character string
first_char(v) ==
    LET w == Len(v) IN
    CASE w = 1 -> v[1]
      [] w = 2 -> (v[1] % 32) * 64 + (v[2] % 64)
      [] w = 3 -> (v[1] % 16) * 4096 + (v[2] % 64) * 64 + (v[3] % 64)
      [] OTHER -> (v[1] % 8) * 262144 + (v[2] % 64) * 4096
                    + (v[3] % 64) * 64 + (v[4] % 64)

----------------------------------------------------------------------------
(* src/encode.rs                                                            *)

\* s.get(i).cloned().unwrap_or(0) as usize
GetOr0(s, i) == IF i < Len(s) THEN s[i + 1] ELSE 0

\* faulty variant of encode_chunk_chars: PADDING_41 and PADDING_42 swapped
encode_chunk_chars_swapped(s) ==
    LET b0 == s[1]
        b1 == GetOr0(s, 1)
        b2 == GetOr0(s, 2)
        b3 == GetOr0(s, 3)
        b4 == GetOr0(s, 4)
        c0 == EMOJIS[BitOr(Shl(b0, 2), Shr(b1, 6))]
        c1 == EMOJIS[BitOr(Shl(BitAnd(b1, 63), 4), Shr(b2, 4))]
        c2 == EMOJIS[BitOr(Shl(BitAnd(b2, 15), 6), Shr(b3, 2))]
    IN  CASE Len(s) = 1 -> <<c0, PADDING, PADDING, PADDING>>
          [] Len(s) = 2 -> <<c0, c1, PADDING, PADDING>>
          [] Len(s) = 3 -> <<c0, c1, c2, PADDING>>
          [] Len(s) = 4 ->
                <<c0, c1, c2,
                  CASE BitAnd(b3, 3) = 0 -> PADDING_40
                    [] BitAnd(b3, 3) = 1 -> PADDING_42
                    [] BitAnd(b3, 3) = 2 -> PADDING_41
                    [] BitAnd(b3, 3) = 3 -> PADDING_43>>
          [] Len(s) = 5 ->
                <<c0, c1, c2, EMOJIS[BitOr(Shl(BitAnd(b3, 3), 8), b4)]>>

\* faulty variant of encode_chunk_chars: for a chunk of 4 bytes the numbered
\* sentinel is stored in chars[2]
encode_chunk_chars_early_sentinel(s) ==
    LET b0 == s[1]
        b1 == GetOr0(s, 1)
        b2 == GetOr0(s, 2)
        b3 == GetOr0(s, 3)
        b4 == GetOr0(s, 4)
        c0 == EMOJIS[BitOr(Shl(b0, 2), Shr(b1, 6))]
        c1 == EMOJIS[BitOr(Shl(BitAnd(b1, 63), 4), Shr(b2, 4))]
        c2 == EMOJIS[BitOr(Shl(BitAnd(b2, 15), 6), Shr(b3, 2))]
    IN  CASE Len(s) = 1 -> <<c0, PADDING, PADDING, PADDING>>
          [] Len(s) = 2 -> <<c0, c1, PADDING, PADDING>>
          [] Len(s) = 3 -> <<c0, c1, c2, PADDING>>
          [] Len(s) = 4 ->
                <<c0, c1,
                  CASE BitAnd(b3, 3) = 0 -> PADDING_40
                    [] BitAnd(b3, 3) = 1 -> PADDING_41
                    [] BitAnd(b3, 3) = 2 -> PADDING_42
                    [] BitAnd(b3, 3) = 3 -> PADDING_43,
                  PADDING>>
          [] Len(s) = 5 ->
                <<c0, c1, c2, EMOJIS[BitOr(Shl(BitAnd(b3, 3), 8), b4)]>>

\* the four symbols of a chunk of 1 to 5 bytes (the `chars` array)
encode_chunk_chars(s) ==
    LET b0 == s[1]
        b1 == GetOr0(s, 1)
        b2 == GetOr0(s, 2)
        b3 == GetOr0(s, 3)
        b4 == GetOr0(s, 4)
        c0 == EMOJIS[BitOr(Shl(b0, 2), Shr(b1, 6))]
        c1 == EMOJIS[BitOr(Shl(BitAnd(b1, 63), 4), Shr(b2, 4))]
        c2 == EMOJIS[BitOr(Shl(BitAnd(b2, 15), 6), Shr(b3, 2))]
    IN  CASE Len(s) = 1 -> <<c0, PADDING, PADDING, PADDING>>
          [] Len(s) = 2 -> <<c0, c1, PADDING, PADDING>>
          [] Len(s) = 3 -> <<c0, c1, c2, PADDING>>
          [] Len(s) = 4 ->
                <<c0, c1, c2,
                  CASE BitAnd(b3, 3) = 0 -> PADDING_40
                    [] BitAnd(b3, 3) = 1 -> PADDING_41
                    [] BitAnd(b3, 3) = 2 -> PADDING_42
                    [] BitAnd(b3, 3) = 3 -> PADDING_43>>
          [] Len(s) = 5 ->
                <<c0, c1, c2, EMOJIS[BitOr(Shl(BitAnd(b3, 3), 8), b4)]>>

\* faulty variant of write_chars: every symbol counted as 4 bytes
RECURSIVE write_chars_by_four(_, _, _)
write_chars_by_four(chars, out, n) ==
    IF chars = <<>> THEN [out |-> out, n |-> n]
    ELSE LET s == encode_utf8(Head(chars))
         IN  write_chars_by_four(Tail(chars), out \o s, n + 4)

\* the loop that writes the symbols: `out` is what write_all appended to
\* the destination, `n` the returned bytes_written
RECURSIVE write_chars(_, _, _)
write_chars(chars, out, n) ==
    IF chars = <<>> THEN [out |-> out, n |-> n]
    ELSE LET s == encode_utf8(Head(chars))
         IN  write_chars(Tail(chars), out \o s, n + Len(s))

encode_chunk(s) == write_chars(encode_chunk_chars(s), <<>>, 0)

\* read_exact on a source that delivers whatever fits (a byte slice): the
\* number of bytes that end up in a buffer of `cap` bytes
read_exact_slice(source, cap) == IF Len(source) < cap THEN Len(source) ELSE cap

\* encode(source, destination) on a byte slice: Ok(n) and what was written
RECURSIVE encode_loop(_, _, _)
encode_loop(source, sink, bytes_written) ==
    LET n == read_exact_slice(source, 5) IN
    IF n = 0 THEN [ok |-> TRUE, n |-> bytes_written, out |-> sink]
    ELSE LET w == encode_chunk(Head2(source, n))
         IN  encode_loop(Tail2(source, n), sink \o w.out, bytes_written + w.n)

encode(source) == encode_loop(source, <<>>, 0)

\* encode_to_string: the bytes of the returned String
encode_to_string(source) == encode(source).out

----------------------------------------------------------------------------
(* src/chars.rs on a byte slice                                             *)

\* Chars::next on a source that delivers whatever fits: None, Some(Ok(c))
\* or Some(Err(NotUtf8)); `rest` is what the source still holds
chars_next(source) ==
    IF source = <<>> THEN [tag |-> "None", c |-> 0, rest |-> <<>>]
    ELSE
        LET first_byte == source[1]
            width == utf8_char_width(first_byte)
        IN  IF width = 1 THEN
                [tag |-> "Ok", c |-> first_byte, rest |-> Tail(source)]
            ELSE IF width = 0 THEN
                [tag |-> "NotUtf8", c |-> 0, rest |-> Tail(source)]
            ELSE IF Len(source) < width THEN
                [tag |-> "NotUtf8", c |-> 0, rest |-> <<>>]
            ELSE IF from_utf8_ok(Head2(source, width)) THEN
                [tag |-> "Ok", c |-> first_char(Head2(source, width)),
                 rest |-> Tail2(source, width)]
            ELSE
                [tag |-> "NotUtf8", c |-> 0, rest |-> Tail2(source, width)]

\* CharsError::into_io: the kind of the io::Error it builds
into_io_kind == "InvalidInput"

----------------------------------------------------------------------------
(* src/decode.rs                                                            *)

\* check_char on what Chars::next yielded: "Ok" or the kind of the error
check_char(r) ==
    IF r.tag = "NotUtf8" THEN into_io_kind
    ELSE IF is_valid_alphabet_char(r.c) THEN "Ok"
    ELSE "InvalidData"

\* faulty variant of bits4_of: the two bits of a numbered sentinel unshifted
bits4_of_unshifted(c3) ==
    CASE c3 = PADDING_40 -> 0
      [] c3 = PADDING_41 -> 1
      [] c3 = PADDING_42 -> 2
      [] c3 = PADDING_43 -> 3
      [] OTHER -> RevOr0(c3)

\* bits4 of a group
bits4_of(c3) ==
    CASE c3 = PADDING_40 -> 0
      [] c3 = PADDING_41 -> Shl(1, 8)
      [] c3 = PADDING_42 -> Shl(2, 8)
      [] c3 = PADDING_43 -> Shl(3, 8)
      [] OTHER -> RevOr0(c3)

\* the five reconstructed bytes of a group of four checked code points
decode_out5(chars) ==
    LET bits1 == RevOr0(chars[1])
        bits2 == RevOr0(chars[2])
        bits3 == RevOr0(chars[3])
        bits4 == bits4_of(chars[4])
    IN  <<AsU8(Shr(bits1, 2)),
          AsU8(BitOr(Shl(BitAnd(bits1, 3), 6), Shr(bits2, 4))),
          AsU8(BitOr(Shl(BitAnd(bits2, 15), 4), Shr(bits3, 6))),
          AsU8(BitOr(Shl(BitAnd(bits3, 63), 2), Shr(bits4, 8))),
          AsU8(BitAnd(bits4, 255))>>

\* faulty variant of decode_out_len: the numbered sentinels tested first
decode_out_len_last_first(chars) ==
    IF chars[4] = PADDING_40 \/ chars[4] = PADDING_41
            \/ chars[4] = PADDING_42 \/ chars[4] = PADDING_43 THEN 4
    ELSE IF chars[2] = PADDING THEN 1
    ELSE IF chars[3] = PADDING THEN 2
    ELSE IF chars[4] = PADDING THEN 3
    ELSE 5

\* how many of them are written
decode_out_len(chars) ==
    IF chars[2] = PADDING THEN 1
    ELSE IF chars[3] = PADDING THEN 2
    ELSE IF chars[4] = PADDING THEN 3
    ELSE IF chars[4] = PADDING_40 \/ chars[4] = PADDING_41
            \/ chars[4] = PADDING_42 \/ chars[4] = PADDING_43 THEN 4
    ELSE 5

\* the slice `out` that is written for a group
decode_group(chars) == Head2(decode_out5(chars), decode_out_len(chars))

\* faulty variant of on_none: the end of the stream always ends the loop
on_none_break(i) == "End"

\* input.next() gave None when i code points of the group were read: the
\* loop ends ("End") before a group, the call fails inside one
on_none(i) == IF i = 0 THEN "End" ELSE "UnexpectedEof"

\* reading the code points of one group: i of them are in `chars` already
RECURSIVE read_group(_, _)
read_group(source, chars) ==
    IF Len(chars) = 4 THEN [st |-> "Ok", chars |-> chars, rest |-> source]
    ELSE
        LET r == chars_next(source) IN
        IF r.tag = "None" THEN
            [st |-> on_none(Len(chars)), chars |-> chars, rest |-> r.rest]
        ELSE IF check_char(r) # "Ok" THEN
            [st |-> check_char(r), chars |-> chars, rest |-> r.rest]
        ELSE read_group(r.rest, Append(chars, r.c))

\* faulty variant of decode_loop: a padded group ends the decoding
RECURSIVE decode_loop_until_padding(_, _, _)
decode_loop_until_padding(source, sink, bytes_written) ==
    LET g == read_group(source, <<>>) IN
    IF g.st = "End" THEN
        [ok |-> TRUE, kind |-> "", n |-> bytes_written, out |-> sink]
    ELSE IF g.st # "Ok" THEN
        [ok |-> FALSE, kind |-> g.st, n |-> 0, out |-> sink]
    ELSE LET out == decode_group(g.chars) IN
         IF Len(out) < 5 THEN
            [ok |-> TRUE, kind |-> "", n |-> bytes_written + Len(out), out |-> sink \o out]
         ELSE decode_loop_until_padding(g.rest, sink \o out, bytes_written + Len(out))

\* decode(source, destination) on a byte slice: Ok(n) or Err(kind), and
\* what was written to the destination
RECURSIVE decode_loop(_, _, _)
decode_loop(source, sink, bytes_written) ==
    LET g == read_group(source, <<>>) IN
    IF g.st = "End" THEN
        [ok |-> TRUE, kind |-> "", n |-> bytes_written, out |-> sink]
    ELSE IF g.st # "Ok" THEN
        [ok |-> FALSE, kind |-> g.st, n |-> 0, out |-> sink]
    ELSE LET out == decode_group(g.chars)
         IN  decode_loop(g.rest, sink \o out, bytes_written + Len(out))

decode(source) == decode_loop(source, <<>>, 0)

\* decode_to_vec: Ok(output) or Err(kind)
decode_to_vec(source) ==
    LET r == decode(source) IN
    IF r.ok THEN [ok |-> TRUE, kind |-> "", val |-> r.out]
    ELSE [ok |-> FALSE, kind |-> r.kind, val |-> <<>>]

----------------------------------------------------------------------------
(* Inputs.                                                                  *)

\* the byte values inputs are made of: the four values of the two low bits,
\* and bytes with high bits set
ByteVals == {0, 1, 2, 171, 255}

\* all byte sequences of at most n bytes over a set of byte values
SeqsUpTo(S, n) == UNION {[1..k -> S] : k \in 0..n}

None == [ok |-> FALSE, kind |-> "none", n |-> 0, out |-> <<>>]

\* no streaming call is made
NoStream ==
    /\ src = <<>>
    /\ buf = <<>>
    /\ grp = <<>>
    /\ dest = <<>>
    /\ written = 0
    /\ res = None
    /\ hist = <<>>
    /\ seen = {}
    /\ yielded = <<>>

----------------------------------------------------------------------------
(* Round trip on byte slices: encode_to_string, then decode_to_vec.         *)

InitRoundTrip ==
    /\ mode = "roundtrip"
    /\ pc = "start"
    /\ a \in SeqsUpTo(ByteVals, MaxLen)
    /\ b = <<>>
    /\ ra = None
    /\ rb = None
    /\ rc = None
    /\ NoStream

EncodeToString ==
    /\ mode = "roundtrip"
    /\ pc = "start"
    /\ ra' = encode(a)
    /\ pc' = "encoded"
    /\ UNCHANGED <<mode, a, b, rb, rc, streamVars>>

DecodeToVec ==
    /\ mode = "roundtrip"
    /\ pc = "encoded"
    /\ rb' = decode(ra.out)
    /\ pc' = "decoded"
    /\ UNCHANGED <<mode, a, b, ra, rc, streamVars>>

Next == EncodeToString \/ DecodeToVec

Spec == InitRoundTrip /\ [][Next]_vars

\* an input of a full chunk and a partial one that came back
RoundTripWitness ==
    /\ mode = "roundtrip" /\ pc = "decoded"
    /\ Len(a) = 6
    /\ rb.ok /\ rb.out = a

\* C1: for every byte sequence, encoding succeeds, decoding the result
\* succeeds, and the decoded bytes are the input.
RoundTrip ==
    /\ (pc \in {"encoded", "decoded"} => ra.ok)
    /\ (pc = "decoded" => rb.ok /\ rb.out = a)

----------------------------------------------------------------------------
(* Sorting order (the crate's example and quickcheck property): a sorted    *)
(* batch of two inputs is encoded, the encoded strings are sorted again and *)
(* decoded.                                                                 *)

\* the byte values of the batch: the four values of the two low bits
OrderVals == {0, 1, 2, 255}

\* x < y for Vec<u8> and for String (bytes of the UTF-8 form): byte-wise,
\* a proper prefix being smaller
RECURSIVE BytesLess(_, _)
BytesLess(x, y) ==
    IF y = <<>> THEN FALSE
    ELSE IF x = <<>> THEN TRUE
    ELSE IF Head(x) # Head(y) THEN Head(x) < Head(y)
    ELSE BytesLess(Tail(x), Tail(y))

\* sort_unstable of a vector of two
Sort2(v) == IF BytesLess(v[2], v[1]) THEN <<v[2], v[1]>> ELSE v

InitOrder ==
    /\ mode = "order"
    /\ pc = "start"
    /\ a \in SeqsUpTo(OrderVals, 5)
    /\ b \in {Head2(a, i) \o t : i \in 0..Len(a), t \in SeqsUpTo(OrderVals, MaxTail)}
    /\ BytesLess(a, b)
    /\ ra = None
    /\ rb = None
    /\ rc = None
    /\ NoStream

EncodeBatch ==
    /\ mode = "order"
    /\ pc = "start"
    /\ ra' = encode(a)
    /\ rb' = encode(b)
    /\ pc' = "encoded"
    /\ UNCHANGED <<mode, a, b, rc, streamVars>>

SortAndDecodeBatch ==
    /\ mode = "order"
    /\ pc = "encoded"
    /\ LET output_sorted == Sort2(<<ra.out, rb.out>>)
       IN  rc' = <<decode_to_vec(output_sorted[1]), decode_to_vec(output_sorted[2])>>
    /\ pc' = "decoded"
    /\ UNCHANGED <<mode, a, b, ra, rb, streamVars>>

NextOrder == EncodeBatch \/ SortAndDecodeBatch

SpecOrder == InitOrder /\ [][NextOrder]_vars

\* a batch whose first input is a proper prefix of the second inside a chunk
OrderWitness ==
    /\ mode = "order" /\ pc = "decoded"
    /\ Len(a) = 4 /\ Len(b) = 5 /\ Head2(b, 4) = a
    /\ BytesLess(ra.out, rb.out)
    /\ <<rc[1].val, rc[2].val>> = <<a, b>>

\* C2: if A < B then encode(A) < encode(B), and decoding the sorted encoded
\* batch yields the batch in sorted order.
OrderPreserved ==
    /\ (pc \in {"encoded", "decoded"} /\ BytesLess(a, b)
            => BytesLess(ra.out, rb.out))
    /\ (pc = "decoded"
            => /\ rc[1].ok /\ rc[2].ok
               /\ <<rc[1].val, rc[2].val>> = Sort2(<<a, b>>))

----------------------------------------------------------------------------
(* Concatenation (the crate's example): two inputs are encoded, the         *)
(* encoded strings are concatenated and the concatenation is decoded.       *)

\* the byte values of the two inputs
ConcatVals == {1, 254}

InitConcat ==
    /\ mode = "concat"
    /\ pc = "start"
    /\ a \in SeqsUpTo(ConcatVals, MaxLen)
    /\ b \in SeqsUpTo(ConcatVals, MaxLen)
    /\ ra = None
    /\ rb = None
    /\ rc = None
    /\ NoStream

EncodeBoth ==
    /\ mode = "concat"
    /\ pc = "start"
    /\ ra' = encode(a)
    /\ rb' = encode(b)
    /\ pc' = "encoded"
    /\ UNCHANGED <<mode, a, b, rc, streamVars>>

DecodeConcatenation ==
    /\ mode = "concat"
    /\ pc = "encoded"
    /\ rc' = decode_to_vec(ra.out \o rb.out)
    /\ pc' = "decoded"
    /\ UNCHANGED <<mode, a, b, ra, rb, streamVars>>

NextConcat == EncodeBoth \/ DecodeConcatenation

SpecConcat == InitConcat /\ [][NextConcat]_vars

\* C3: decoding encode(A) ++ encode(B) succeeds and yields A ++ B.
ConcatDecodes ==
    pc = "decoded" /\ mode = "concat" => rc.ok /\ rc.val = a \o b

\* two inputs whose first leaves padding in the middle of the decoder's input
ConcatWitness ==
    /\ mode = "concat" /\ pc = "decoded"
    /\ Len(a) % 5 = 3 /\ Len(b) > 0
    /\ rc.ok /\ rc.val = a \o b

----------------------------------------------------------------------------
(* encode_chunk on one chunk.                                               *)

\* the byte values of the chunk: all values of the low two bits, bytes with
\* the high bits set, and the bytes of the tests
ChunkVals == {0, 1, 2, 3, 64, 171, 255}

InitChunk ==
    /\ mode = "chunk"
    /\ pc = "start"
    /\ a \in UNION {[1..k -> ChunkVals] : k \in 1..5}
    /\ b = <<>>
    /\ ra = None
    /\ rb = None
    /\ rc = None
    /\ NoStream

EncodeChunk ==
    /\ mode = "chunk"
    /\ pc = "start"
    /\ LET w == encode_chunk(a)
       IN  ra' = [ok |-> TRUE, kind |-> "", n |-> w.n, out |-> w.out]
    /\ pc' = "encoded"
    /\ UNCHANGED <<mode, a, b, rb, rc, streamVars>>

NextChunk == EncodeChunk

SpecChunk == InitChunk /\ [][NextChunk]_vars

\* the UTF-8 form of a sequence of code points
RECURSIVE Utf8OfChars(_)
Utf8OfChars(cs) ==
    IF cs = <<>> THEN <<>> ELSE encode_utf8(Head(cs)) \o Utf8OfChars(Tail(cs))

\* the table indices the chunk formulas of section 4.2 compute
ChunkIndex(s, k) ==
    LET b0 == GetOr0(s, 0)
        b1 == GetOr0(s, 1)
        b2 == GetOr0(s, 2)
        b3 == GetOr0(s, 3)
        b4 == GetOr0(s, 4)
    IN  CASE k = 0 -> b0 * 4 + (b1 \div 64)
          [] k = 1 -> (b1 % 64) * 16 + (b2 \div 16)
          [] k = 2 -> (b2 % 16) * 64 + (b3 \div 4)
          [] k = 3 -> (b3 % 4) * 256 + b4

\* the four symbols section 4.2 gives for a chunk
ChunkSymbols(s) ==
    LET n == Len(s)
        b3 == GetOr0(s, 3)
    IN  <<EMOJIS[ChunkIndex(s, 0)],
          IF n >= 2 THEN EMOJIS[ChunkIndex(s, 1)] ELSE PADDING,
          IF n >= 3 THEN EMOJIS[ChunkIndex(s, 2)] ELSE PADDING,
          IF n <= 3 THEN PADDING
          ELSE IF n = 4 THEN <<PADDING_40, PADDING_41, PADDING_42, PADDING_43>>[(b3 % 4) + 1]
          ELSE EMOJIS[ChunkIndex(s, 3)]>>

\* C4: encode_chunk emits exactly the four symbols of section 4.2, and every
\* table index computed is within 0..1023.
ChunkEncoding ==
    mode = "chunk" /\ pc = "encoded" =>
        /\ \A k \in 0..3 : ChunkIndex(a, k) \in 0..1023
        /\ ra.out = Utf8OfChars(ChunkSymbols(a))

\* a chunk of four bytes whose last byte selects PADDING_43
ChunkWitness ==
    /\ mode = "chunk" /\ pc = "encoded"
    /\ Len(a) = 4 /\ a[4] = 255
    /\ ra.out = Utf8OfChars(<<EMOJIS[ChunkIndex(a, 0)], EMOJIS[ChunkIndex(a, 1)],
                              EMOJIS[ChunkIndex(a, 2)], PADDING_43>>)

----------------------------------------------------------------------------
(* decode on one group of four symbols, well formed or not.                 *)

\* the ranks of the alphabet symbols of the group
GroupRanks == {0, 1, 255, 256, 687, 1023}

Sentinels == {PADDING, PADDING_40, PADDING_41, PADDING_42, PADDING_43}

GroupSymbols == Sentinels \cup {EMOJIS[r] : r \in GroupRanks}

InitGroup ==
    /\ mode = "group"
    /\ pc = "start"
    /\ a \in [1..4 -> GroupSymbols]
    /\ b = <<>>
    /\ ra = None
    /\ rb = None
    /\ rc = None
    /\ NoStream

DecodeGroup ==
    /\ mode = "group"
    /\ pc = "start"
    /\ ra' = decode(Utf8OfChars(a))
    /\ pc' = "decoded"
    /\ UNCHANGED <<mode, a, b, rb, rc, streamVars>>

NextGroup == DecodeGroup

SpecGroup == InitGroup /\ [][NextGroup]_vars

\* r0..r3 of section 4.3
GroupRank(cs, k) ==
    IF k < 3 THEN RevOr0(cs[k + 1])
    ELSE CASE cs[4] = PADDING_40 -> 0
           [] cs[4] = PADDING_41 -> 256
           [] cs[4] = PADDING_42 -> 512
           [] cs[4] = PADDING_43 -> 768
           [] OTHER -> RevOr0(cs[4])

\* out0..out4 of section 4.3
GroupBytes(cs) ==
    LET r0 == GroupRank(cs, 0)
        r1 == GroupRank(cs, 1)
        r2 == GroupRank(cs, 2)
        r3 == GroupRank(cs, 3)
    IN  <<r0 \div 4,
          (r0 % 4) * 64 + (r1 \div 16),
          (r1 % 16) * 16 + (r2 \div 64),
          (r2 % 64) * 4 + (r3 \div 256),
          r3 % 256>>

\* the number of bytes section 4.3 selects
GroupLen(cs) ==
    CASE cs[2] = PADDING -> 1
      [] cs[2] # PADDING /\ cs[3] = PADDING -> 2
      [] cs[2] # PADDING /\ cs[3] # PADDING /\ cs[4] = PADDING -> 3
      [] cs[2] # PADDING /\ cs[3] # PADDING
            /\ cs[4] \in {PADDING_40, PADDING_41, PADDING_42, PADDING_43} -> 4
      [] OTHER -> 5

\* C5: for every group of four symbols or sentinels decode writes the first
\* n of the five reconstructed bytes, n chosen by the guards in priority order.
GroupDecoding ==
    mode = "group" /\ pc = "decoded" =>
        /\ ra.ok
        /\ ra.out = Head2(GroupBytes(a), GroupLen(a))

\* PADDING in position 1 followed by a symbol and a numbered sentinel: 1 byte
GroupWitness ==
    /\ mode = "group" /\ pc = "decoded"
    /\ a[2] = PADDING /\ a[3] = EMOJIS[687] /\ a[4] = PADDING_42
    /\ ra.ok /\ Len(ra.out) = 1

----------------------------------------------------------------------------
(* encode and decode on a source that delivers its bytes in reads of any    *)
(* size, may interrupt a read (ErrorKind::Interrupted) and may fail.        *)

\* longest source of a streaming encode, in bytes
MaxStreamLen == 6
\* most code points (whole or broken) in the source of a streaming decode
MaxTokens == 5
\* most code points (whole or broken) after the two whole groups of a long
\* source of a streaming decode
MaxTrail == 1

\* the byte values of the source of a streaming encode
StreamVals == {0, 171, 255}

\* what the source of a streaming decode is made of: an alphabet symbol, the
\* sentinels PADDING (3 bytes) and PADDING_41 (4 bytes), a space (a code
\* point outside the alphabet), a byte that starts no UTF-8 sequence, and
\* the first two bytes of a four-byte sequence
SymbolTokens ==
    {encode_utf8(EMOJIS[687]), encode_utf8(PADDING), encode_utf8(PADDING_41)}

ForeignTokens == {<<32>>}

BrokenTokens == {<<254>>, <<240, 159>>}

Tokens == SymbolTokens \cup ForeignTokens \cup BrokenTokens

\* whole groups of a long source: of 5 bytes, of 4 bytes and of 1 byte
WholeGroups ==
    {<<encode_utf8(EMOJIS[687]), encode_utf8(EMOJIS[687]),
       encode_utf8(EMOJIS[687]), encode_utf8(EMOJIS[687])>>,
     <<encode_utf8(EMOJIS[687]), encode_utf8(EMOJIS[687]),
       encode_utf8(EMOJIS[687]), encode_utf8(PADDING_41)>>,
     <<encode_utf8(EMOJIS[687]), encode_utf8(PADDING),
       encode_utf8(PADDING), encode_utf8(PADDING)>>}

RECURSIVE Flatten(_)
Flatten(ts) == IF ts = <<>> THEN <<>> ELSE Head(ts) \o Flatten(Tail(ts))

Min(x, y) == IF x < y THEN x ELSE y

Ok(n) == [ok |-> TRUE, kind |-> "", cause |-> "", n |-> n]

Err(kind, cause) == [ok |-> FALSE, kind |-> kind, cause |-> cause, n |-> 0]

InitStream ==
    /\ mode \in {"encode", "decode"}
    /\ IF mode = "encode"
       THEN /\ a \in SeqsUpTo(StreamVals, MaxStreamLen)
            /\ b = <<>>
            /\ pc = "read"
       ELSE /\ b \in SeqsUpTo(Tokens, MaxTokens)
                    \cup {g \o h \o t : g \in WholeGroups, h \in WholeGroups,
                                         t \in SeqsUpTo(Tokens, MaxTrail)}
            /\ a = Flatten(b)
            /\ pc = "first"
    /\ src = a
    /\ buf = <<>>
    /\ grp = <<>>
    /\ dest = <<>>
    /\ written = 0
    /\ res = None
    /\ hist = <<>>
    /\ seen = {}
    /\ yielded = <<>>
    /\ ra = None
    /\ rb = None
    /\ rc = None

pureVars == <<mode, a, b, ra, rb, rc>>

\* faulty variant of buf_is_empty: read_exact returns after one read
buf_is_empty_after_a_read(filled) == filled >= 1

\* `while !buf.is_empty()` of read_exact: `filled` bytes of the 5 are read
buf_is_empty(filled) == filled = 5

\* encode: bytes_written += encode_chunk(&buf[..n], destination)?
EncodeBuffered ==
    LET w == encode_chunk(buf) IN
    /\ dest' = dest \o w.out
    /\ written' = written + w.n
    /\ hist' = Append(hist, Len(buf))
    /\ buf' = <<>>

\* read_exact: source.read(buf) returns Ok(k), k > 0
EncRead ==
    /\ mode = "encode" /\ pc = "read"
    /\ ~buf_is_empty(Len(buf))
    /\ \E k \in 1..Min(5 - Len(buf), Len(src)) :
        /\ buf' = buf \o Head2(src, k)
        /\ src' = Tail2(src, k)
        /\ seen' = IF k < 5 - Len(buf) /\ k < Len(src) THEN seen \cup {"short"} ELSE seen
    /\ UNCHANGED <<pureVars, pc, grp, dest, written, res, hist, yielded>>

\* read_exact: source.read(buf) returns Err of kind Interrupted
EncInterrupted ==
    /\ mode = "encode" /\ pc = "read"
    /\ ~buf_is_empty(Len(buf))
    /\ seen' = seen \cup {"Interrupted"}
    /\ UNCHANGED <<pureVars, pc, src, buf, grp, dest, written, res, hist, yielded>>

\* read_exact: source.read(buf) returns another Err, which encode returns
EncReadFails ==
    /\ mode = "encode" /\ pc = "read"
    /\ ~buf_is_empty(Len(buf))
    /\ res' = Err("Other", "Other")
    /\ pc' = "done"
    /\ UNCHANGED <<pureVars, src, buf, grp, dest, written, hist, seen, yielded>>

\* read_exact returns with the buffer full; encode encodes the chunk
EncFull ==
    /\ mode = "encode" /\ pc = "read"
    /\ buf_is_empty(Len(buf))
    /\ EncodeBuffered
    /\ UNCHANGED <<pureVars, pc, src, grp, res, seen, yielded>>

\* read_exact: source.read(buf) returns Ok(0) and read_exact returns what it
\* has; encode ends on 0 bytes and encodes the chunk otherwise
EncEof ==
    /\ mode = "encode" /\ pc = "read"
    /\ ~buf_is_empty(Len(buf))
    /\ src = <<>>
    /\ IF Len(buf) = 0
       THEN /\ res' = Ok(written)
            /\ pc' = "done"
            /\ UNCHANGED <<buf, dest, written, hist>>
       ELSE /\ EncodeBuffered
            /\ UNCHANGED <<pc, res>>
    /\ UNCHANGED <<pureVars, src, grp, seen, yielded>>

\* faulty variant of write_all: the bytes are put in front of what the
\* destination holds
write_all_in_front(sink, out) == out \o sink

\* destination.write_all(out) on a destination that holds `sink`
write_all(sink, out) == sink \o out

\* decode returns an error
DecFail(kind, cause) ==
    /\ res' = Err(kind, cause)
    /\ pc' = "done"
    /\ UNCHANGED <<grp, dest, written>>

\* input.next() gave Some(Ok(c)): check_char, and after the fourth code
\* point of a group the group is decoded and written
DecYield(c) ==
    /\ yielded' = Append(yielded, [tag |-> "Ok", c |-> c])
    /\ IF check_char([tag |-> "Ok", c |-> c]) # "Ok"
       THEN DecFail(check_char([tag |-> "Ok", c |-> c]), "alphabet")
       ELSE /\ pc' = "first"
            /\ res' = res
            /\ IF Len(grp) = 3
               THEN LET out == decode_group(Append(grp, c)) IN
                    /\ grp' = <<>>
                    /\ dest' = write_all(dest, out)
                    /\ written' = written + Len(out)
               ELSE /\ grp' = Append(grp, c)
                    /\ UNCHANGED <<dest, written>>

\* input.next() gave Some(Err(CharsError::NotUtf8)): check_char fails
DecNotUtf8 ==
    /\ yielded' = Append(yielded, [tag |-> "NotUtf8", c |-> 0])
    /\ DecFail(check_char([tag |-> "NotUtf8", c |-> 0]), "NotUtf8")

\* faulty variant of start_lt_width: the continuation bytes are read once
start_lt_width_once(start, width) == FALSE

\* `while start < width` of Chars::next: `start` bytes of the code point
\* are in the buffer
start_lt_width(start, width) == start < width

\* &buf[..width] of the buffer [first_byte, 0, 0, 0] with `got` read into it
buf_to_width(got, width) == Head2(got \o <<0, 0, 0>>, width)

\* Chars::next: read_one_byte returns a byte
DecFirstByte ==
    /\ mode = "decode" /\ pc = "first"
    /\ src # <<>>
    /\ src' = Tail(src)
    /\ LET first_byte == Head(src)
           width == utf8_char_width(first_byte)
       IN  IF width = 1 THEN DecYield(first_byte) /\ buf' = <<>>
           ELSE IF width = 0
           THEN DecNotUtf8 /\ buf' = <<>>
           ELSE /\ buf' = <<first_byte>>
                /\ pc' = "cont"
                /\ UNCHANGED <<grp, dest, written, res, yielded>>
    /\ UNCHANGED <<pureVars, hist, seen>>

\* Chars::next: read_one_byte returns None: the stream ended between two
\* code points
DecFirstEof ==
    /\ mode = "decode" /\ pc = "first"
    /\ src = <<>>
    /\ IF on_none(Len(grp)) = "End"
       THEN /\ res' = Ok(written)
            /\ pc' = "done"
            /\ UNCHANGED <<grp, dest, written>>
       ELSE DecFail(on_none(Len(grp)), "eof")
    /\ UNCHANGED <<pureVars, src, buf, hist, seen, yielded>>

\* Chars::next: a read of continuation bytes returns Ok(k), k > 0
DecCont ==
    /\ mode = "decode" /\ pc = "cont"
    /\ LET width == utf8_char_width(buf[1]) IN
       \E k \in 1..Min(width - Len(buf), Len(src)) :
        LET got == buf \o Head2(src, k) IN
        /\ src' = Tail2(src, k)
        /\ seen' = IF k < width - Len(buf) /\ k < Len(src) THEN seen \cup {"short"} ELSE seen
        /\ IF start_lt_width(Len(got), width)
           THEN /\ buf' = got
                /\ UNCHANGED <<pc, grp, dest, written, res, yielded>>
           ELSE /\ buf' = <<>>
                /\ IF from_utf8_ok(buf_to_width(got, width))
                   THEN DecYield(first_char(buf_to_width(got, width)))
                   ELSE DecNotUtf8
    /\ UNCHANGED <<pureVars, hist>>

\* Chars::next: a read of continuation bytes returns Ok(0)
DecContEof ==
    /\ mode = "decode" /\ pc = "cont"
    /\ src = <<>>
    /\ DecNotUtf8
    /\ UNCHANGED <<pureVars, src, buf, hist, seen>>

\* Chars::next: a read returns Err of kind Interrupted
DecInterrupted ==
    /\ mode = "decode" /\ pc \in {"first", "cont"}
    /\ seen' = seen \cup {"Interrupted"}
    /\ UNCHANGED <<pureVars, pc, src, buf, grp, dest, written, res, hist, yielded>>

\* Chars::next: a read returns another Err: CharsError::Other
DecReadFails ==
    /\ mode = "decode" /\ pc \in {"first", "cont"}
    /\ DecFail(into_io_kind, "Other")
    /\ UNCHANGED <<pureVars, src, buf, hist, seen, yielded>>

NextStream ==
    \/ EncRead
    \/ EncInterrupted
    \/ EncReadFails
    \/ EncFull
    \/ EncEof
    \/ DecFirstByte
    \/ DecFirstEof
    \/ DecCont
    \/ DecContEof
    \/ DecInterrupted
    \/ DecReadFails

SpecStream == InitStream /\ [][NextStream]_vars

----------------------------------------------------------------------------
(* Properties of the streaming calls.                                       *)

\* a streaming decode has returned and its source did not fail
DecodeReturned == mode = "decode" /\ pc = "done" /\ res.cause # "Other"

\* the position (from 1) of the first token that is no symbol; 0 if none
FirstNonSymbol ==
    IF \A i \in 1..Len(b) : b[i] \in SymbolTokens THEN 0
    ELSE CHOOSE i \in 1..Len(b) :
            /\ b[i] \notin SymbolTokens
            /\ \A j \in 1..(i - 1) : b[j] \in SymbolTokens

\* C6: a symbol stream whose code-point count is not a multiple of 4 fails
\* decode with an error of kind UnexpectedEof.
ShortStreamIsUnexpectedEof ==
    DecodeReturned /\ FirstNonSymbol = 0 /\ Len(b) % 4 # 0
        => ~res.ok /\ res.kind = "UnexpectedEof"

\* five symbols, read in pieces: the second group ends after one code point
ShortStreamWitness ==
    /\ DecodeReturned /\ FirstNonSymbol = 0 /\ Len(b) = 5
    /\ "short" \in seen
    /\ ~res.ok /\ res.kind = "UnexpectedEof"

\* C7: a decode input that contains invalid UTF-8 bytes fails with an error
\* of kind InvalidData.
InvalidUtf8IsInvalidData ==
    DecodeReturned /\ (\E i \in 1..Len(b) : b[i] \in BrokenTokens)
        => ~res.ok /\ res.kind = "InvalidData"

\* C8: decode succeeds only on symbols and sentinels, and fails with
\* InvalidData as soon as a valid code point outside the alphabet is read,
\* having written the groups before it and nothing of its own group.
ForeignCodePointIsInvalidData ==
    DecodeReturned =>
        /\ (res.ok => FirstNonSymbol = 0)
        /\ (FirstNonSymbol > 0 /\ b[FirstNonSymbol] \in ForeignTokens
                => /\ ~res.ok /\ res.kind = "InvalidData"
                   /\ src = Flatten(SubSeq(b, FirstNonSymbol + 1, Len(b)))
                   /\ dest = decode(Flatten(SubSeq(b, 1,
                                4 * ((FirstNonSymbol - 1) \div 4)))).out)

\* a space in the second group, after a group of four symbols was written
ForeignCodePointWitness ==
    /\ DecodeReturned /\ FirstNonSymbol = 5 /\ b[5] \in ForeignTokens
    /\ ~res.ok /\ res.kind = "InvalidData"
    /\ Len(dest) > 0

\* C9: when encode or decode returns Ok(n), n is the number of bytes the call
\* wrote to the destination.
ReturnedCountIsWritten ==
    /\ mode \in {"encode", "decode"} => written = Len(dest)
    /\ mode \in {"encode", "decode"} /\ pc = "done" /\ res.ok => res.n = Len(dest)

\* an encode of 6 bytes: a chunk of four 4-byte symbols, then a symbol and
\* three PADDING of 3 bytes each
ReturnedCountWitness ==
    /\ mode = "encode" /\ pc = "done" /\ res.ok
    /\ Len(a) = 6
    /\ res.n = 29 /\ Len(dest) = 29

\* the chunk lengths of a source of n bytes
RECURSIVE ChunkLengths(_)
ChunkLengths(n) ==
    IF n = 0 THEN <<>>
    ELSE IF n <= 5 THEN <<n>>
    ELSE <<5>> \o ChunkLengths(n - 5)

\* C10: however the source delivers its bytes, every chunk but the last has
\* 5 bytes, no Interrupted error is returned, and the output is that of the
\* same bytes delivered in one read.
ChunkingIgnoresDelivery ==
    mode = "encode" =>
        /\ \A i \in 1..(Len(hist) - 1) : hist[i] = 5
        /\ (pc = "done" => res.ok \/ res.cause = "Other")
        /\ (pc = "done" /\ res.ok
                => /\ hist = ChunkLengths(Len(a))
                   /\ dest = encode(a).out
                   /\ res.n = encode(a).n)

\* 6 bytes delivered in short reads with an interrupted read in between
ChunkingWitness ==
    /\ mode = "encode" /\ pc = "done" /\ res.ok
    /\ Len(a) = 6
    /\ seen = {"Interrupted", "short"}
    /\ hist = <<5, 1>>
    /\ dest = encode(a).out

\* the code points whose UTF-8 form is a token of a streaming decode
TokenScalars == {EMOJIS[687], PADDING, PADDING_41, 32}

\* the item the code-point reader is to return for a token: its scalar
\* value, or NotUtf8 for a byte that starts no sequence and for a sequence
\* that is cut short
TokenItem(t) ==
    IF t \in BrokenTokens THEN [tag |-> "NotUtf8", c |-> 0]
    ELSE [tag |-> "Ok", c |-> CHOOSE c \in TokenScalars : encode_utf8(c) = t]

AllYieldedOk == \A i \in 1..Len(yielded) : yielded[i].tag = "Ok"

\* C11: Chars::next ends the sequence without error when the stream ends
\* before the first byte of a code point, yields NotUtf8 when it ends inside a
\* multi-byte sequence, and otherwise consumes exactly the bytes of the code
\* point, so that the items yielded are those of the tokens of the stream
\* however the reads are fragmented or interrupted.
CharsIgnoreFragmentation ==
    mode = "decode" =>
        /\ Len(yielded) <= Len(b)
        /\ \A i \in 1..Len(yielded) : yielded[i] = TokenItem(b[i])
        /\ (AllYieldedOk
                => buf \o src = Flatten(SubSeq(b, Len(yielded) + 1, Len(b))))
        /\ (pc = "first" => buf = <<>> /\ AllYieldedOk)
        /\ (pc = "cont" => /\ AllYieldedOk
                           /\ Len(buf) >= 1
                           /\ Len(buf) < utf8_char_width(buf[1]))
        /\ (pc = "done" /\ res.cause \in {"", "eof"}
                => src = <<>> /\ buf = <<>> /\ AllYieldedOk /\ Len(yielded) = Len(b))
        /\ (pc = "done" /\ res.cause = "NotUtf8"
                => yielded[Len(yielded)].tag = "NotUtf8")
        /\ (DecodeReturned /\ Len(b) > 0 /\ b[Len(b)] = <<240, 159>>
                /\ (\A i \in 1..(Len(b) - 1) : b[i] \in SymbolTokens)
                => res.cause = "NotUtf8" /\ Len(yielded) = Len(b) /\ src = <<>>)

\* a symbol of 4 bytes and a PADDING of 3 bytes read in pieces with an
\* interrupted read, then a 4-byte sequence that the end of the stream cuts
CharsFragmentedWitness ==
    /\ DecodeReturned
    /\ b = <<encode_utf8(EMOJIS[687]), encode_utf8(PADDING), <<240, 159>>>>
    /\ seen = {"Interrupted", "short"}
    /\ yielded = <<[tag |-> "Ok", c |-> EMOJIS[687]], [tag |-> "Ok", c |-> PADDING],
                   [tag |-> "NotUtf8", c |-> 0]>>
    /\ res.cause = "NotUtf8"

----------------------------------------------------------------------------
(* The shape of what encode writes.                                         *)

\* the items Chars::next yields off a byte slice, up to the end of the slice
RECURSIVE chars_collect(_)
chars_collect(bytes) ==
    LET r == chars_next(bytes) IN
    IF r.tag = "None" THEN <<>>
    ELSE <<[tag |-> r.tag, c |-> r.c]>> \o chars_collect(r.rest)

\* the code points of what encode_to_string returned
Encoded == chars_collect(ra.out)

\* the group (from 0) and the position in it of the i-th code point (from 1)
GroupOf(i) == (i - 1) \div 4

PosOf(i) == (i - 1) % 4

\* C12: the output of encode for n bytes is valid UTF-8 of 4 * ceil(n / 5)
\* code points, each a symbol or a sentinel; sentinels stand only in the last
\* group and never in position 0, the numbered sentinels only in position 3,
\* PADDING is followed by PADDING to the end of its group, and decode
\* accepts the output.
EncodeWellFormed ==
    mode = "roundtrip" /\ pc \in {"encoded", "decoded"} =>
        LET enc == Encoded IN
        /\ ra.ok
        /\ \A i \in 1..Len(enc) : enc[i].tag = "Ok"
        /\ Len(enc) = 4 * ((Len(a) + 4) \div 5)
        /\ \A i \in 1..Len(enc) :
            LET c == enc[i].c IN
            /\ c \in EMOJIS_REV_KEYS \/ c \in Sentinels
            /\ ~(c \in EMOJIS_REV_KEYS /\ c \in Sentinels)
            /\ (c \in Sentinels
                    => GroupOf(i) = GroupOf(Len(enc)) /\ PosOf(i) # 0)
            /\ (c \in Sentinels \ {PADDING} => PosOf(i) = 3)
            /\ (c = PADDING /\ PosOf(i) < 3 => enc[i + 1].c = PADDING)
        /\ (pc = "decoded" => rb.ok)

\* 6 bytes: a group of four symbols, then a symbol and three PADDING
EncodeWellFormedWitness ==
    /\ mode = "roundtrip" /\ pc = "decoded"
    /\ Len(a) = 6
    /\ LET enc == Encoded IN
       /\ Len(enc) = 8
       /\ \A i \in 1..5 : enc[i].c \in EMOJIS_REV_KEYS
       /\ \A i \in 6..8 : enc[i].c = PADDING
    /\ rb.ok

----------------------------------------------------------------------------
(* Sentinels where decode looks up a rank.                                  *)

\* the positions (from 0) of the group whose looked-up value bits1, bits2 or
\* bits3 goes into the byte out[k]
out_uses(k) ==
    CASE k = 0 -> {0}
      [] k = 1 -> {0, 1}
      [] k = 2 -> {1, 2}
      [] k = 3 -> {2}
      [] k = 4 -> {}

\* position p of the group cs holds a sentinel where only an alphabet symbol
\* is legitimate, so that unwrap_or(0) supplies the rank 0 for it: any
\* sentinel in position 0, a numbered sentinel in position 1 or 2
SubstitutedRank(cs, p) ==
    /\ cs[p + 1] \notin EMOJIS_REV_KEYS
    /\ \/ p = 0 /\ cs[p + 1] \in Sentinels
       \/ p \in {1, 2} /\ cs[p + 1] \in Sentinels \ {PADDING}

\* C13: no successful decode writes a byte computed from the rank 0 that is
\* substituted for a sentinel standing where only an alphabet symbol is
\* legitimate.
NoByteFromSubstitutedRank ==
    mode = "group" /\ pc = "decoded" /\ ra.ok =>
        \A k \in 0..(Len(ra.out) - 1) :
            \A p \in out_uses(k) : ~SubstitutedRank(a, p)

----------------------------------------------------------------------------
(* What a streaming decode has written at each of its steps.                *)

\* the number of code points that passed check_char so far
Validated ==
    IF pc = "done" /\ res.cause \in {"alphabet", "NotUtf8"}
    THEN Len(yielded) - 1
    ELSE Len(yielded)

\* the code points of group g (from 0) of the source
GroupAt(g) == [j \in 1..4 |-> TokenItem(b[4 * g + j]).c]

\* the bytes of the groups 0..n-1 of the source by section 4.3, in order
RECURSIVE GroupsDecoded(_)
GroupsDecoded(n) ==
    IF n = 0 THEN <<>>
    ELSE GroupsDecoded(n - 1)
            \o Head2(GroupBytes(GroupAt(n - 1)), GroupLen(GroupAt(n - 1)))

\* C14: at every step of a decode call, and when it fails in group k on
\* invalid UTF-8, on a code point outside the alphabet or on the end of the
\* stream, the destination holds the decoded bytes of the complete groups
\* before the current one, in input order, and nothing of the current group.
WrittenGroupsInOrder ==
    mode = "decode" =>
        /\ Len(grp) = Validated % 4
        /\ \A j \in 1..Len(grp) :
                grp[j] = TokenItem(b[4 * (Validated \div 4) + j]).c
        /\ dest = GroupsDecoded(Validated \div 4)
        /\ (pc = "done" /\ res.ok => Validated = Len(b) /\ grp = <<>>)

\* two groups of 4 bytes and of 1 byte were written in this order, read in
\* pieces, and the call failed on a space in the third group
WrittenGroupsWitness ==
    /\ mode = "decode" /\ pc = "done"
    /\ Len(b) = 9 /\ b[9] \in ForeignTokens
    /\ b[4] = encode_utf8(PADDING_41) /\ b[6] = encode_utf8(PADDING)
    /\ "short" \in seen
    /\ ~res.ok /\ res.cause = "alphabet"
    /\ Len(dest) = 5
    /\ dest = GroupsDecoded(2)

----------------------------------------------------------------------------
(* The build step (build.rs, run) statement by statement, on lists of       *)
(* pairwise-distinct code points that are long enough for the three         *)
(* removals and the 1024 entries of the table.  In this scenario `a` is the *)
(* list read from emojis.txt, `b` the vector `lines`, `ra` the sentinel     *)
(* constants written so far, `rb` the entries of EMOJIS written so far and  *)
(* `rc` the entries of rev_map.                                             *)

\* most lines of a list beyond the 1027 that the build step uses
MaxExtraLines == 1

\* the first code points of the lists: below PADDING, so that PADDING and
\* PADDING_40 are lines of the list, and the first line of emojis.txt
BuildBases == {9700, FirstEmoji}

\* lists of n consecutive code points from `base`, increasing or decreasing
BuildList(base, n, up) ==
    [i \in 0..(n - 1) |-> IF up THEN base + i ELSE base + (n - 1) - i]

BuildLists ==
    {BuildList(base, 1027 + k, up) :
        base \in BuildBases, k \in 0..MaxExtraLines, up \in BOOLEAN}
    \cup {emojis_txt}

EmptyVec == [i \in {} |-> 0]

InitBuild ==
    /\ mode = "build"
    /\ pc = "consts"
    /\ a \in BuildLists
    /\ b = a
    /\ ra = <<>>
    /\ rb = EmptyVec
    /\ rc = EmptyVec
    /\ NoStream

\* the constants PADDING and PADDING_40 are written
WriteConsts ==
    /\ mode = "build" /\ pc = "consts"
    /\ ra' = <<PADDING, PADDING_40>>
    /\ pc' = "remove_41"
    /\ UNCHANGED <<mode, a, b, rb, rc, streamVars>>

\* a sentinel constant is written from lines.remove(i)
RemoveLine(i) ==
    /\ ra' = Append(ra, Removal(b, i).removed)
    /\ b' = Removal(b, i).rest
    /\ UNCHANGED <<mode, a, rb, rc, streamVars>>

Remove41 ==
    /\ mode = "build" /\ pc = "remove_41"
    /\ RemoveLine(256)
    /\ pc' = "remove_42"

Remove42 ==
    /\ mode = "build" /\ pc = "remove_42"
    /\ RemoveLine(512)
    /\ pc' = "remove_43"

Remove43 ==
    /\ mode = "build" /\ pc = "remove_43"
    /\ RemoveLine(768)
    /\ pc' = "loop"

\* faulty variant of rev_map_entry: the index counted from 1
rev_map_entry_from_one(map, line, i) == map @@ (line :> i + 1)

\* rev_map.entry(char of the line, i)
rev_map_entry(map, line, i) == map @@ (line :> i)

\* one iteration of the loop over lines.into_iter().take(1024).enumerate()
TableEntry ==
    /\ mode = "build" /\ pc = "loop"
    /\ LET i == VecLen(rb) IN
       /\ i < 1024 /\ i < VecLen(b)
       /\ rb' = rb @@ (i :> b[i])
       /\ rc' = rev_map_entry(rc, b[i], i)
    /\ UNCHANGED <<mode, pc, a, b, ra, streamVars>>

\* the loop is over; the table is closed and rev_map is built
BuildMap ==
    /\ mode = "build" /\ pc = "loop"
    /\ ~(VecLen(rb) < 1024 /\ VecLen(rb) < VecLen(b))
    /\ pc' = "built"
    /\ UNCHANGED <<mode, a, b, ra, rb, rc, streamVars>>

NextBuild ==
    \/ WriteConsts
    \/ Remove41
    \/ Remove42
    \/ Remove43
    \/ TableEntry
    \/ BuildMap

SpecBuild == InitBuild /\ [][NextBuild]_vars

\* is_valid_alphabet_char on the constants and the map that were generated
is_valid_alphabet_char_built(c) ==
    \/ c \in {ra[1], ra[2], ra[3], ra[4], ra[5]}
    \/ c \in DOMAIN rc

\* the symbols of the table written so far
TableSymbols == {rb[i] : i \in DOMAIN rb}

\* the line of the list that entry i of the table is taken from, given the
\* removals at 256, 512 and 768 each on the list the previous one left
LineOfEntry(i) ==
    IF i < 256 THEN i
    ELSE IF i < 512 THEN i + 1
    ELSE IF i < 768 THEN i + 2
    ELSE i + 3

\* code points to try: every line of the list, both fixed sentinels, a
\* space, and the code points next to the list
Candidates ==
    {a[i] : i \in DOMAIN a} \cup {PADDING, PADDING_40, 32}
        \cup {a[0] - 1, a[0] + 1, a[VecLen(a) - 1] - 1, a[VecLen(a) - 1] + 1}

\* C15: from a list of at least 1027 pairwise-distinct code points the build
\* step makes a table of exactly 1024 entries and a reverse map of exactly
\* 1024 keys with reverse[table[i]] = i; PADDING_41, PADDING_42, PADDING_43
\* are the lines removed at 256, 512, 768 in this order and are not in the
\* table; is_valid_alphabet_char holds of the table symbols and the five
\* sentinels and of nothing else.
AlphabetConsistent ==
    mode = "build" =>
        /\ DOMAIN rb = 0..(VecLen(rb) - 1)
        /\ Cardinality(DOMAIN rc) = VecLen(rb)
        /\ \A i \in DOMAIN rb : rb[i] = a[LineOfEntry(i)] /\ rc[rb[i]] = i
        /\ (pc = "built" =>
                /\ VecLen(rb) = 1024
                /\ DOMAIN rc = TableSymbols
                /\ ra = <<PADDING, PADDING_40, a[256], a[513], a[770]>>
                /\ {ra[3], ra[4], ra[5]} \cap TableSymbols = {}
                /\ Cardinality({ra[3], ra[4], ra[5]}) = 3
                /\ \A c \in Candidates :
                        is_valid_alphabet_char_built(c)
                            <=> c \in TableSymbols
                                    \cup {PADDING, PADDING_40, ra[3], ra[4], ra[5]}
                /\ (a = emojis_txt
                        => /\ rb = EMOJIS
                           /\ rc = EMOJIS_REV
                           /\ ra = <<PADDING, PADDING_40, PADDING_41,
                                     PADDING_42, PADDING_43>>))

\* the build is done on a decreasing list of 1028 lines that holds PADDING
\* and PADDING_40: the last line is left out of the table
AlphabetConsistentWitness ==
    /\ mode = "build" /\ pc = "built"
    /\ VecLen(a) = 1028 /\ a[0] > a[1]
    /\ PADDING \in TableSymbols
    /\ VecLen(rb) = 1024 /\ rc[rb[1023]] = 1023
    /\ rb[1023] = a[1026]
    /\ a[1027] \notin DOMAIN rc
    /\ ~is_valid_alphabet_char_built(a[1027])
    /\ is_valid_alphabet_char_built(a[770])

====
